---------------------------- MODULE Spec2Model ----------------------------
(***************************************************************************)
(* Model of roscopter's waypoint manager                                   *)
(* (src/roscopter/src/waypoint_manager/waypoint_manager.py).               *)
(*                                                                         *)
(* The node owns a waypoint list and the index of the waypoint currently   *)
(* targeted.  Service handlers edit the list, the odometry callback        *)
(* advances the index when the vehicle is close enough to the target.      *)
(*                                                                         *)
(* Spec      every handler runs to completion (one action per handler).    *)
(* SpecConc  the odometry callback and one service handler run in two      *)
(*           threads, interleaved statement by statement, as rospy runs    *)
(*           them (no lock in the source).                                 *)
(***************************************************************************)
EXTENDS Integers, Sequences, FiniteSets, TLC

VARIABLES
    waypoint_list,           \* self.waypoint_list: sequence of waypoints (3 or 4 numbers)
    current_waypoint_index,  \* self.current_waypoint_index, 0-based as in the source
    cyclical_path,           \* self.cyclical_path
    threshold,               \* self.threshold
    waypoint_pub_,           \* the latched message of the high_level_command publisher
    out,                     \* messages published by the handler that ran last, in order
    req,                     \* the request or sample the last handler was called with
    ret,                     \* what that handler returned (or raised)
    log,                     \* what that handler logged
    old,                     \* list and index as they were when that handler started
    pc,                      \* SpecConc: the statement each thread is at
    srv_index,               \* SpecConc: the service handler's index (req.index, line 79 or 84)
    fault,                   \* SpecConc: the exception the last step raised, or the torn read it made
    main,                    \* the statement the main thread is at ("spin": in rospy.spin())
    shutdown,                \* rospy.signal_shutdown() has been called
    early                    \* SpecStart: handlers dispatched while __init__ was still running

vars == <<waypoint_list, current_waypoint_index, cyclical_path, threshold,
          waypoint_pub_, out, req, ret, log, old, pc, srv_index, fault,
          main, shutdown, early>>

(***************************************************************************)
(* Bounds of the model.                                                    *)
(***************************************************************************)
\* AddWaypoint is not offered once the list holds MaxLen waypoints.
MaxLen == 4

\* Index arguments of requests range over -MaxLen .. MaxLen.
Indices == (0 - MaxLen) .. MaxLen

(***************************************************************************)
(* Python list primitives, 0-based indices over 1-based TLA+ sequences.    *)
(***************************************************************************)
\* s[i] of Python for 0 <= i < len(s)
At(s, i) == s[i + 1]

\* whether s[i] / del s[i] is legal in Python: -len(s) <= i < len(s)
InRange(s, i) == (0 - Len(s)) <= i /\ i < Len(s)

\* the position a legal Python index denotes (negative counts from the end)
Norm(s, i) == IF i < 0 THEN i + Len(s) ELSE i

\* s[i] of Python for any legal i
Get(s, i) == At(s, Norm(s, i))

\* where list.insert(i, x) puts x: negative i counts from the end, then clamped
InsertPos(s, i) ==
    LET j == IF i < 0 THEN i + Len(s) ELSE i
    IN  IF j < 0 THEN 0 ELSE IF j > Len(s) THEN Len(s) ELSE j

\* s after s.insert(i, x)
Insert(s, i, x) ==
    LET p == InsertPos(s, i)
    IN  SubSeq(s, 1, p) \o <<x>> \o SubSeq(s, p + 1, Len(s))

\* s after del s[i], for a legal i
Delete(s, i) ==
    LET p == Norm(s, i)
    IN  SubSeq(s, 1, p) \o SubSeq(s, p + 2, Len(s))

(***************************************************************************)
(* Messages.                                                               *)
(***************************************************************************)
\* Command built by __init__ and pubNextWaypoint from a waypoint
CommandMsg(wp) ==
    [topic |-> "high_level_command",
     x |-> wp[1], y |-> wp[2], F |-> wp[3],
     z |-> IF Len(wp) > 3 THEN wp[4] ELSE 0]

\* RelativePose published by __init__ (all zero) and by odometryCallback
RelativePoseMsg(x, y, yaw, F) ==
    [topic |-> "relative_pose", x |-> x, y |-> y, z |-> yaw, F |-> F]

\* return values: a number, None, True, or an exception raised
Value(n)   == [kind |-> "value", val |-> n]
None       == [kind |-> "None", val |-> 0]
True       == [kind |-> "True", val |-> 0]
IndexError == [kind |-> "IndexError", val |-> 0]
AttributeError == [kind |-> "AttributeError", val |-> 0]

NoReq == [op |-> "init", index |-> 0, wp |-> <<>>, pos |-> <<>>, quat |-> <<>>]


(***************************************************************************)
(* Inputs.                                                                 *)
(***************************************************************************)
\* ~waypoints parameter values the node is started with (3 or 4 components)
InitialLists ==
    { << <<0, 0, 10>>, <<5, 5, 10>>, <<10, 10, 10>> >>,
      << <<2, 2, 2, 3>> >> }

\* ~threshold parameter values (the default and the one of the spec's scenario)
Thresholds == {1, 5}

\* [req.x, req.y, req.z, req.psi] of AddWaypoint requests
NewWaypoints == { <<1, 1, 1, 0>> }

\* odometry samples: msg.pose.pose.position (z is down-positive) and
\* msg.pose.pose.orientation as <<w, x, y, z>>
Samples ==
    { << <<0, 0, -10>>,    <<1, 0, 0, 0>> >>,
      << <<5, 5, -10>>,    <<0, 0, 0, 1>> >>,
      << <<10, 10, -10>>,  <<1, 0, 0, 0>> >>,
      << <<1, 1, -1>>,     <<0, 0, 0, 1>> >>,
      << <<2, 2, -2>>,     <<1, 0, 0, 0>> >>,
      << <<0, 1, -10>>,    <<0, 0, 0, 1>> >> }

(***************************************************************************)
(* odometryCallback's arithmetic.                                          *)
(***************************************************************************)
\* np.arctan2(s, c) in degrees, on the arguments whose angle is exact
arctan2(s, c) ==
    CASE s = 0 /\ c >= 0 -> 0
      [] s = 0 /\ c < 0  -> 180
      [] s > 0 /\ c = 0  -> 90
      [] s < 0 /\ c = 0  -> 0 - 90

\* yaw from quaternion
Yaw(q) ==
    LET qw == q[1]  qx == q[2]  qy == q[3]  qz == q[4]
    IN  arctan2(2 * (qw * qz + qx * qy), 1 - 2 * (qy * qy + qz * qz))

\* mutant: z taken as it comes
CurrentPosition_NoInvert(p) == <<p[1], p[2], p[3]>>

\* current_position: the sample's position with z sign-inverted
CurrentPosition(p) == <<p[1], p[2], 0 - p[3]>>

\* np.linalg.norm(current_position - current_waypoint[0:3]) squared
SqError(cp, wp) ==
    (cp[1] - wp[1]) * (cp[1] - wp[1]) + (cp[2] - wp[2]) * (cp[2] - wp[2])
      + (cp[3] - wp[3]) * (cp[3] - wp[3])

\* mutant: <= for <
Reached_Inclusive(cp, wp) == threshold > 0 /\ SqError(cp, wp) <= threshold * threshold

\* error < self.threshold, on integers: compare the squares
Reached(cp, wp) == threshold > 0 /\ SqError(cp, wp) < threshold * threshold

(***************************************************************************)
(* wrapWaypointIndex: the index cur wrapped for a list of n waypoints.     *)
(***************************************************************************)
\* mutant: the index is left as it is
wrapWaypointIndex_NoWrap(cur, n) == cur

\* mutant: clamped whatever the mode
wrapWaypointIndex_AlwaysClamp(cur, n) == IF cur >= n THEN cur - 1 ELSE cur

\* mutant: modulo whatever the mode
wrapWaypointIndex_AlwaysModulo(cur, n) == cur % n

wrapWaypointIndex(cur, n) ==
    IF cyclical_path
    THEN cur % n
    ELSE IF cur >= n THEN cur - 1 ELSE cur

\* pubNextWaypoint: the messages it publishes for list and index; none when
\* list[cur] raises IndexError
pubNextWaypoint(list, cur) ==
    IF InRange(list, cur) THEN << CommandMsg(Get(list, cur)) >> ELSE <<>>

\* what a handler returns after the call of pubNextWaypoint that ends it
AfterPub(list, cur, r) == IF InRange(list, cur) THEN r ELSE IndexError

(***************************************************************************)
(* The handlers, as functions from the state at entry and the request to  *)
(* the state at return: [list, cur, ret, log, out].                        *)
(***************************************************************************)
Result(list, cur, r, l, o) ==
    [list |-> list, cur |-> cur, ret |-> r, log |-> l, out |-> o]

\* addWaypointCallback, lines 78-80: the range check
AddOutOfRange(list, i) == i # -1 /\ i > Len(list)

\* mutant: the append sentinel is handed to list.insert as it is
AddIndex_NoSentinel(list, i) == i

\* addWaypointCallback, lines 78-84: the index handed to list.insert
AddIndex(list, i) == IF i = -1 THEN Len(list) ELSE i

\* addWaypointCallback, lines 86-87
AddAdjust(cur, index) == IF cur >= index THEN cur + 1 ELSE cur

addWaypointCallback(list, cur, r) ==
    IF AddOutOfRange(list, r.index)
    THEN Result(list, cur, None, "warn: Waypoint Index Out of Range", <<>>)
    ELSE LET index   == AddIndex(list, r.index)
             newlist == Insert(list, index, r.wp)
         IN  Result(newlist, AddAdjust(cur, index), Value(Len(newlist)),
                    "info: Added New Waypoint", <<>>)

\* removeWaypointCallback, line 93
RemoveOnly(list) == Len(list) = 1

\* mutant: > for >=
RemoveOutOfRange_Strict(list, i) == i > Len(list)

\* removeWaypointCallback, line 96
RemoveOutOfRange(list, i) == i >= Len(list)

\* removeWaypointCallback, lines 99-108: after the two checks
RemoveEdit(list, cur, i) ==
    LET newlist == Delete(list, i)
    IN  IF i = cur
        THEN LET c == wrapWaypointIndex(cur, Len(newlist))
             IN  Result(newlist, c, AfterPub(newlist, c, Value(Len(newlist))), "",
                        pubNextWaypoint(newlist, c))
        ELSE IF cur >= Len(newlist)
        THEN Result(newlist, cur - 1, Value(Len(newlist)), "", <<>>)
        ELSE Result(newlist, cur, Value(Len(newlist)), "", <<>>)

\* mutant: the range check before the only-waypoint check
removeWaypointCallback_RangeFirst(list, cur, r) ==
    IF RemoveOutOfRange(list, r.index)
    THEN Result(list, cur, None, "warn: Waypoint Index Out of Range", <<>>)
    ELSE IF RemoveOnly(list)
    THEN Result(list, cur, Value(Len(list)), "warn: Cannot Remove Only Waypoint", <<>>)
    ELSE IF ~InRange(list, r.index)
    THEN Result(list, cur, IndexError, "", <<>>)
    ELSE RemoveEdit(list, cur, r.index)

removeWaypointCallback(list, cur, r) ==
    IF RemoveOnly(list)
    THEN Result(list, cur, Value(Len(list)), "warn: Cannot Remove Only Waypoint", <<>>)
    ELSE IF RemoveOutOfRange(list, r.index)
    THEN Result(list, cur, None, "warn: Waypoint Index Out of Range", <<>>)
    ELSE IF ~InRange(list, r.index)
    THEN Result(list, cur, IndexError, "", <<>>)       \* del raises
    ELSE RemoveEdit(list, cur, r.index)

setWaypointsFromFileCallback(list, cur, r) ==
    Result(list, cur, None, "print: set Waypoints from File (NOT IMPLEMENTED)", <<>>)

\* mutant: the return statement missing
listWaypoints_NoReturn(list, cur, r) ==
    Result(list, cur, None, "print: waypoint_list", <<>>)

listWaypoints(list, cur, r) ==
    Result(list, cur, True, "print: waypoint_list", <<>>)

odometryCallback(list, cur, r) ==
    IF ~InRange(list, cur)
    THEN Result(list, cur, IndexError, "", <<>>)        \* line 123 raises
    ELSE
    LET current_waypoint  == Get(list, cur)
        current_position  == CurrentPosition(r.pos)
        rel == RelativePoseMsg(current_position[1], current_position[2],
                               Yaw(r.quat), current_position[3])
    IN  IF Reached(current_position, current_waypoint)
        THEN LET c == wrapWaypointIndex(cur + 1, Len(list))
             IN  Result(list, c, AfterPub(list, c, None), "",
                        <<rel>> \o pubNextWaypoint(list, c))
        ELSE Result(list, cur, None, "", <<rel>>)

(***************************************************************************)
(* Requests and samples.                                                   *)
(***************************************************************************)
AddReq(wp, i)   == [op |-> "add", index |-> i, wp |-> wp, pos |-> <<>>, quat |-> <<>>]
RemoveReq(i)    == [op |-> "remove", index |-> i, wp |-> <<>>, pos |-> <<>>, quat |-> <<>>]
ListReq         == [op |-> "list", index |-> 0, wp |-> <<>>, pos |-> <<>>, quat |-> <<>>]
FromFileReq     == [op |-> "file", index |-> 0, wp |-> <<>>, pos |-> <<>>, quat |-> <<>>]
OdomMsg(p, q)   == [op |-> "odom", index |-> 0, wp |-> <<>>, pos |-> p, quat |-> q]

\* the last Command among the messages o, or the latched one if there is none
Latched(prev, o) ==
    LET cmds == SelectSeq(o, LAMBDA m : m.topic = "high_level_command")
    IN  IF cmds = <<>> THEN prev ELSE cmds[Len(cmds)]

(***************************************************************************)
(* Spec: the state after __init__ (lines 15-68), then one handler at a     *)
(* time, each run to completion.                                           *)
(***************************************************************************)
Idle == [t \in {"srv", "odom"} |-> "idle"]

Init ==
    /\ waypoint_list \in InitialLists
    /\ current_waypoint_index = 0
    /\ cyclical_path \in BOOLEAN
    /\ threshold \in Thresholds
    /\ waypoint_pub_ = CommandMsg(At(waypoint_list, 0))
    /\ out = << RelativePoseMsg(0, 0, 0, 0), CommandMsg(At(waypoint_list, 0)) >>
    /\ req = NoReq
    /\ ret = None
    /\ log = ""
    /\ old = [list |-> waypoint_list, cur |-> 0]
    /\ pc = Idle
    /\ srv_index = 0
    /\ fault = "none"
    /\ main = "spin"
    /\ shutdown = FALSE
    /\ early = 0

\* the handler called with r returned res
Handled(r, res) ==
    /\ waypoint_list' = res.list
    /\ current_waypoint_index' = res.cur
    /\ waypoint_pub_' = Latched(waypoint_pub_, res.out)
    /\ out' = res.out
    /\ req' = r
    /\ ret' = res.ret
    /\ log' = res.log
    /\ old' = [list |-> waypoint_list, cur |-> current_waypoint_index]
    /\ UNCHANGED <<cyclical_path, threshold, pc, srv_index, fault, main, shutdown, early>>

AddWaypoint ==
    \E wp \in NewWaypoints, i \in Indices :
        /\ Len(waypoint_list) < MaxLen
        /\ Handled(AddReq(wp, i),
                   addWaypointCallback(waypoint_list, current_waypoint_index, AddReq(wp, i)))

RemoveWaypoint ==
    \E i \in Indices :
        Handled(RemoveReq(i),
                removeWaypointCallback(waypoint_list, current_waypoint_index, RemoveReq(i)))

ListWaypoints ==
    Handled(ListReq, listWaypoints(waypoint_list, current_waypoint_index, ListReq))

SetWaypointsFromFile ==
    Handled(FromFileReq,
            setWaypointsFromFileCallback(waypoint_list, current_waypoint_index, FromFileReq))

Odometry ==
    \E m \in Samples :
        Handled(OdomMsg(m[1], m[2]),
                odometryCallback(waypoint_list, current_waypoint_index, OdomMsg(m[1], m[2])))

Next ==
    \/ AddWaypoint
    \/ RemoveWaypoint
    \/ ListWaypoints
    \/ SetWaypointsFromFile
    \/ Odometry

Spec == Init /\ [][Next]_vars

(***************************************************************************)
(* SpecLive: the list is not edited (no AddWaypoint, no RemoveWaypoint)    *)
(* and the vehicle keeps reaching its current target: a sample within the  *)
(* threshold of the current waypoint is eventually handled.                *)
(***************************************************************************)
\* odometryCallback called with a sample that takes the branch of line 148
OdometryReach ==
    \E m \in Samples :
        /\ Reached(CurrentPosition(m[1]), At(waypoint_list, current_waypoint_index))
        /\ Handled(OdomMsg(m[1], m[2]),
                   odometryCallback(waypoint_list, current_waypoint_index,
                                    OdomMsg(m[1], m[2])))

NextLive ==
    \/ ListWaypoints
    \/ SetWaypointsFromFile
    \/ Odometry

SpecLive == Init /\ [][NextLive]_vars /\ WF_vars(OdometryReach)

(***************************************************************************)
(* SpecConc: rospy calls a subscriber's callback from the topic's receive  *)
(* thread and a service's handler from the thread of the client's          *)
(* connection; the source takes no lock.  One odometry thread and one      *)
(* service thread, each a handler at a time, interleaved between the       *)
(* statements that write the list or the index.  A label names the source  *)
(* line of the thread's next statement.  Statements that read only what no *)
(* other thread writes (the service thread alone writes the list) are      *)
(* taken together with the statement that follows them.                    *)
(***************************************************************************)
\* the service thread goes to statement l, keeping the index local i
SrvGoto(l, i) ==
    /\ pc' = [pc EXCEPT !["srv"] = l]
    /\ srv_index' = IF l = "idle" THEN 0 ELSE i

\* the odometry thread goes to statement l
OdGoto(l) == pc' = [pc EXCEPT !["odom"] = l]

\* the list has been edited and the index bookkeeping of that edit is pending
MidEdit == {"add_86", "rm_101", "rm_102", "rm_106"}

ghost == <<cyclical_path, threshold, out, req, ret, log, old, main, shutdown, early>>

\* addWaypointCallback lines 77-85: the checks and the insert
AddEdit ==
    /\ pc["srv"] = "idle"
    /\ Len(waypoint_list) < MaxLen
    /\ \E wp \in NewWaypoints, i \in Indices :
         IF AddOutOfRange(waypoint_list, i)
         THEN /\ waypoint_list' = waypoint_list
              /\ SrvGoto("idle", i)
         ELSE /\ waypoint_list' = Insert(waypoint_list, AddIndex(waypoint_list, i), wp)
              /\ SrvGoto("add_86", AddIndex(waypoint_list, i))
    /\ fault' = "none"
    /\ UNCHANGED <<current_waypoint_index, waypoint_pub_, ghost>>

\* lines 86-89
Add86 ==
    /\ pc["srv"] = "add_86"
    /\ current_waypoint_index' = AddAdjust(current_waypoint_index, srv_index)
    /\ SrvGoto("idle", srv_index)
    /\ fault' = "none"
    /\ UNCHANGED <<waypoint_list, waypoint_pub_, ghost>>

\* removeWaypointCallback lines 93-99: the checks and the del
RmEdit ==
    /\ pc["srv"] = "idle"
    /\ \E i \in Indices :
         IF RemoveOnly(waypoint_list) \/ RemoveOutOfRange(waypoint_list, i)
         THEN /\ waypoint_list' = waypoint_list
              /\ SrvGoto("idle", i)
              /\ fault' = "none"
         ELSE IF ~InRange(waypoint_list, i)
         THEN /\ waypoint_list' = waypoint_list
              /\ SrvGoto("idle", i)
              /\ fault' = "srv: IndexError at del"
         ELSE /\ waypoint_list' = Delete(waypoint_list, i)
              /\ SrvGoto("rm_101", i)
              /\ fault' = "none"
    /\ UNCHANGED <<current_waypoint_index, waypoint_pub_, ghost>>

\* lines 101 and 105: which branch
Rm101 ==
    /\ pc["srv"] = "rm_101"
    /\ IF srv_index = current_waypoint_index
       THEN SrvGoto("rm_102", 0)
       ELSE IF current_waypoint_index >= Len(waypoint_list)
       THEN SrvGoto("rm_106", 0)
       ELSE SrvGoto("idle", 0)
    /\ fault' = "none"
    /\ UNCHANGED <<waypoint_list, current_waypoint_index, waypoint_pub_, ghost>>

\* line 102
Rm102 ==
    /\ pc["srv"] = "rm_102"
    /\ current_waypoint_index' =
           wrapWaypointIndex(current_waypoint_index, Len(waypoint_list))
    /\ SrvGoto("rm_103", 0)
    /\ fault' = "none"
    /\ UNCHANGED <<waypoint_list, waypoint_pub_, ghost>>

\* line 103, then the return
Rm103 ==
    /\ pc["srv"] = "rm_103"
    /\ IF InRange(waypoint_list, current_waypoint_index)
       THEN /\ waypoint_pub_' = CommandMsg(Get(waypoint_list, current_waypoint_index))
            /\ fault' = "none"
       ELSE /\ waypoint_pub_' = waypoint_pub_
            /\ fault' = "srv: IndexError"
    /\ SrvGoto("idle", 0)
    /\ UNCHANGED <<waypoint_list, current_waypoint_index, ghost>>

\* line 106, then the return
Rm106 ==
    /\ pc["srv"] = "rm_106"
    /\ current_waypoint_index' = current_waypoint_index - 1
    /\ SrvGoto("idle", 0)
    /\ fault' = "none"
    /\ UNCHANGED <<waypoint_list, waypoint_pub_, ghost>>

\* odometryCallback lines 123-146: a sample arrives, the callback reads the
\* current waypoint and compares the error with the threshold
OdRead ==
    /\ pc["odom"] = "idle"
    /\ \E m \in Samples :
         IF ~InRange(waypoint_list, current_waypoint_index)
         THEN /\ OdGoto("idle")
              /\ fault' = "odom: IndexError"
         ELSE /\ IF Reached(CurrentPosition(m[1]),
                            Get(waypoint_list, current_waypoint_index))
                 THEN OdGoto("od_148")
                 ELSE OdGoto("idle")
              /\ fault' = IF pc["srv"] \in MidEdit THEN "odom: torn read" ELSE "none"
    /\ UNCHANGED <<waypoint_list, current_waypoint_index, waypoint_pub_, ghost, srv_index>>

\* line 148
Od148 ==
    /\ pc["odom"] = "od_148"
    /\ current_waypoint_index' = current_waypoint_index + 1
    /\ OdGoto("od_149")
    /\ fault' = "none"
    /\ UNCHANGED <<waypoint_list, waypoint_pub_, ghost, srv_index>>

\* line 149
Od149 ==
    /\ pc["odom"] = "od_149"
    /\ current_waypoint_index' =
           wrapWaypointIndex(current_waypoint_index, Len(waypoint_list))
    /\ OdGoto("od_150")
    /\ fault' = "none"
    /\ UNCHANGED <<waypoint_list, waypoint_pub_, ghost, srv_index>>

\* line 150, then the return
Od150 ==
    /\ pc["odom"] = "od_150"
    /\ IF InRange(waypoint_list, current_waypoint_index)
       THEN /\ waypoint_pub_' = CommandMsg(Get(waypoint_list, current_waypoint_index))
            /\ fault' = IF pc["srv"] \in MidEdit THEN "odom: torn read" ELSE "none"
       ELSE /\ waypoint_pub_' = waypoint_pub_
            /\ fault' = "odom: IndexError"
    /\ OdGoto("idle")
    /\ UNCHANGED <<waypoint_list, current_waypoint_index, ghost, srv_index>>

NextConc ==
    \/ AddEdit \/ Add86
    \/ RmEdit \/ Rm101 \/ Rm102 \/ Rm103 \/ Rm106
    \/ OdRead \/ Od148 \/ Od149 \/ Od150

SpecConc == Init /\ [][NextConc]_vars

(***************************************************************************)
(* SpecStart: __init__ (lines 15-72) statement by statement, from the       *)
(* first get_param to rospy.spin().  The services are registered at lines  *)
(* 32-35 and the subscriber at line 42, so rospy can call their handlers   *)
(* from its own threads while the main thread is still in __init__; an     *)
(* attribute not assigned yet raises AttributeError when a handler reads   *)
(* it.  waypoint_list = <<>> stands for the attribute not assigned.  After *)
(* rospy.signal_shutdown() the node's transports are closed and rospy      *)
(* calls no handler.  out collects every message published.  The           *)
(* specification ends where Spec begins: with the main thread in spin().   *)
(***************************************************************************)
\* handlers dispatched while __init__ runs
MaxEarly == 1

\* waypoint_pub_ before anything was published
NoCommand == [topic |-> "none", x |-> 0, y |-> 0, F |-> 0, z |-> 0]

\* the services are registered (lines 32-35 done) and __init__ still runs
ServicesUp == main \in {"l38", "l42", "l43", "l47", "l55", "l56"}

\* the subscriber is registered (line 42 done) and __init__ still runs
Subscribed == main \in {"l43", "l47", "l55", "l56"}

\* self.current_waypoint_index is assigned (line 55 done)
HasIndex == main \in {"l56", "spin"}

InitStart ==
    /\ waypoint_list = <<>>
    /\ current_waypoint_index = 0
    /\ cyclical_path \in BOOLEAN
    /\ threshold \in Thresholds
    /\ waypoint_pub_ = NoCommand
    /\ out = <<>>
    /\ req = NoReq
    /\ ret = None
    /\ log = ""
    /\ old = [list |-> <<>>, cur |-> 0]
    /\ pc = Idle
    /\ srv_index = 0
    /\ fault = "none"
    /\ main = "l18"
    /\ shutdown = FALSE
    /\ early = 0

\* the main thread executes a statement: it goes to l, having published o
MainStep(l, o) ==
    /\ main' = l
    /\ out' = out \o o
    /\ waypoint_pub_' = Latched(waypoint_pub_, o)
    /\ UNCHANGED <<cyclical_path, threshold, req, ret, old, pc, srv_index, fault, early>>

\* mutant: a list by default where the parameter is missing
GetParams_Default ==
    /\ main = "l18"
    /\ \/ \E list \in InitialLists :
            /\ waypoint_list' = list
            /\ UNCHANGED <<shutdown, log>>
       \/ /\ waypoint_list' = << <<0, 0, 10>> >>
          /\ log' = "fatal: waypoints not set"
          /\ shutdown' = TRUE
    /\ MainStep("l32", <<>>)
    /\ UNCHANGED current_waypoint_index

\* lines 18-29: the parameters; without ~waypoints, logfatal and
\* signal_shutdown, and __init__ goes on
GetParams ==
    /\ main = "l18"
    /\ \/ \E list \in InitialLists :
            /\ waypoint_list' = list
            /\ UNCHANGED <<shutdown, log>>
       \/ /\ log' = "fatal: waypoints not set"
          /\ shutdown' = TRUE
          /\ UNCHANGED waypoint_list
    /\ MainStep("l32", <<>>)
    /\ UNCHANGED current_waypoint_index

\* lines 32-35: the four services
Services ==
    /\ main = "l32"
    /\ MainStep("l38", <<>>)
    /\ UNCHANGED <<waypoint_list, current_waypoint_index, shutdown, log>>

\* lines 38-39: rospy.Time.now() has reached 2 s
Wait ==
    /\ main = "l38"
    /\ MainStep("l42", <<>>)
    /\ UNCHANGED <<waypoint_list, current_waypoint_index, shutdown, log>>

\* line 42: the subscriber
Subscribe ==
    /\ main = "l42"
    /\ MainStep("l43", <<>>)
    /\ UNCHANGED <<waypoint_list, current_waypoint_index, shutdown, log>>

\* lines 43-44: the two publishers
Publishers ==
    /\ main = "l43"
    /\ MainStep("l47", <<>>)
    /\ UNCHANGED <<waypoint_list, current_waypoint_index, shutdown, log>>

\* lines 47-52: the relative pose, all zero
PublishRelPose ==
    /\ main = "l47"
    /\ MainStep("l55", << RelativePoseMsg(0, 0, 0, 0) >>)
    /\ UNCHANGED <<waypoint_list, current_waypoint_index, shutdown, log>>

\* line 55
SetIndex ==
    /\ main = "l55"
    /\ current_waypoint_index' = 0
    /\ MainStep("l56", <<>>)
    /\ UNCHANGED <<waypoint_list, shutdown, log>>

\* lines 56-72: the command of self.waypoint_list[0], then spin(); without
\* the attribute line 56 raises AttributeError, which line 177 catches
PublishFirst ==
    /\ main = "l56"
    /\ IF waypoint_list = <<>>
       THEN MainStep("exit", <<>>)
       ELSE MainStep("spin", << CommandMsg(At(waypoint_list, 0)) >>)
    /\ UNCHANGED <<waypoint_list, current_waypoint_index, shutdown, log>>

\* addWaypointCallback before line 55: line 86 reads the index
addWaypointCallbackNoIndex(list, r) ==
    IF AddOutOfRange(list, r.index)
    THEN Result(list, 0, None, "warn: Waypoint Index Out of Range", <<>>)
    ELSE Result(Insert(list, AddIndex(list, r.index), r.wp), 0, AttributeError, "", <<>>)

\* removeWaypointCallback before line 55: line 101 reads the index
removeWaypointCallbackNoIndex(list, r) ==
    IF RemoveOnly(list)
    THEN Result(list, 0, Value(Len(list)), "warn: Cannot Remove Only Waypoint", <<>>)
    ELSE IF RemoveOutOfRange(list, r.index)
    THEN Result(list, 0, None, "warn: Waypoint Index Out of Range", <<>>)
    ELSE IF ~InRange(list, r.index)
    THEN Result(list, 0, IndexError, "", <<>>)
    ELSE Result(Delete(list, r.index), 0, AttributeError, "", <<>>)

\* odometryCallback before line 55: line 123 reads the index
odometryCallbackNoIndex(list, r) == Result(list, 0, AttributeError, "", <<>>)

\* rospy called a handler with r while __init__ runs, and it ended with res
Dispatched(r, res) ==
    /\ ~shutdown
    /\ early < MaxEarly
    /\ early' = early + 1
    /\ waypoint_list' = res.list
    /\ current_waypoint_index' = res.cur
    /\ waypoint_pub_' = Latched(waypoint_pub_, res.out)
    /\ out' = out \o res.out
    /\ req' = r
    /\ ret' = res.ret
    /\ log' = res.log
    /\ old' = [list |-> waypoint_list, cur |-> current_waypoint_index]
    /\ UNCHANGED <<cyclical_path, threshold, pc, srv_index, fault, main, shutdown>>

EarlyAdd ==
    /\ ServicesUp
    /\ \E wp \in NewWaypoints, i \in Indices :
          /\ Len(waypoint_list) < MaxLen
          /\ Dispatched(AddReq(wp, i),
                IF HasIndex
                THEN addWaypointCallback(waypoint_list, current_waypoint_index, AddReq(wp, i))
                ELSE addWaypointCallbackNoIndex(waypoint_list, AddReq(wp, i)))

EarlyRemove ==
    /\ ServicesUp
    /\ \E i \in Indices :
          Dispatched(RemoveReq(i),
                IF HasIndex
                THEN removeWaypointCallback(waypoint_list, current_waypoint_index, RemoveReq(i))
                ELSE removeWaypointCallbackNoIndex(waypoint_list, RemoveReq(i)))

EarlyList ==
    /\ ServicesUp
    /\ Dispatched(ListReq, listWaypoints(waypoint_list, current_waypoint_index, ListReq))

EarlyFromFile ==
    /\ ServicesUp
    /\ Dispatched(FromFileReq,
          setWaypointsFromFileCallback(waypoint_list, current_waypoint_index, FromFileReq))

EarlyOdometry ==
    /\ Subscribed
    /\ \E m \in Samples :
          Dispatched(OdomMsg(m[1], m[2]),
                IF HasIndex
                THEN odometryCallback(waypoint_list, current_waypoint_index,
                                      OdomMsg(m[1], m[2]))
                ELSE odometryCallbackNoIndex(waypoint_list, OdomMsg(m[1], m[2])))

NextStart ==
    \/ GetParams
    \/ Services
    \/ Wait
    \/ Subscribe
    \/ Publishers
    \/ PublishRelPose
    \/ SetIndex
    \/ PublishFirst
    \/ EarlyAdd
    \/ EarlyRemove
    \/ EarlyList
    \/ EarlyFromFile
    \/ EarlyOdometry

SpecStart == InitStart /\ [][NextStart]_vars

(***************************************************************************)
(* Properties.  req, ret, log, out and old describe the handler that ran   *)
(* last: its request, its result and the list and index it started from.   *)
(***************************************************************************)
OutOfRangeWarned == log = "warn: Waypoint Index Out of Range"
OnlyWaypointWarned == log = "warn: Cannot Remove Only Waypoint"
Untouched == waypoint_list = old.list /\ current_waypoint_index = old.cur

\* the last handler was an AddWaypoint that returned the new length
AddSucceeded == req.op = "add" /\ ret = Value(Len(old.list) + 1)

\* the last handler was a RemoveWaypoint that deleted a waypoint and returned
RemoveSucceeded == req.op = "remove" /\ ret = Value(Len(old.list) - 1)

\* list s with x put at position i (0-based), the others keeping their order
PutAt(s, i, x) == SubSeq(s, 1, i) \o <<x>> \o SubSeq(s, i + 1, Len(s))

\* C1: in every reachable state the index is within the list and the list is
\* not empty: 0 <= CurrentIndex < len(WaypointList) and len(WaypointList) >= 1.
C1_IndexInRange ==
    /\ Len(waypoint_list) >= 1
    /\ 0 <= current_waypoint_index
    /\ current_waypoint_index < Len(waypoint_list)

\* C1 witness: the current and last waypoint of a full list was just removed
C1_Witness ==
    /\ RemoveSucceeded
    /\ Len(old.list) = MaxLen
    /\ old.cur = MaxLen - 1
    /\ req.index = old.cur

\* C2: with the odometry callback and a service handler interleaved, no step
\* reads the list at an index outside it and no callback reads the list while
\* an edit's index bookkeeping is pending.
C2_NoTornAccess ==
    fault \notin {"odom: IndexError", "srv: IndexError", "odom: torn read"}

\* C3: AddWaypoint with an index that is neither -1 nor in 0 .. len(list)
\* fails with IndexOutOfRange and leaves list and index as they were.
C3_AddRejectsInvalidIndex ==
    (req.op = "add" /\ req.index # -1
       /\ ~(0 <= req.index /\ req.index <= Len(old.list)))
    => (OutOfRangeWarned /\ ret = None /\ Untouched)

\* C4: after a successful AddWaypoint at insertion point i, the index is one
\* more and still on the waypoint targeted before if i <= CurrentIndex, and
\* unchanged if i > CurrentIndex; nothing is published.
C4_AddKeepsTarget ==
    AddSucceeded =>
      /\ out = <<>>
      /\ \E i \in 0 .. Len(old.list) :
           /\ waypoint_list = PutAt(old.list, i, req.wp)
           /\ i <= old.cur =>
                /\ current_waypoint_index = old.cur + 1
                /\ At(waypoint_list, current_waypoint_index) = At(old.list, old.cur)
           /\ i > old.cur => current_waypoint_index = old.cur

\* C5: AddWaypoint with index = -1 puts the new waypoint last, keeps the
\* others in order, and returns the new length, the old one plus one.
C5_AppendSentinel ==
    (req.op = "add" /\ req.index = -1) =>
      /\ waypoint_list = old.list \o <<req.wp>>
      /\ ret = Value(Len(old.list) + 1)

\* C5 witness: an append to a list of two or more whose last waypoint differs
C5_Witness ==
    /\ req.op = "add" /\ req.index = -1
    /\ Len(old.list) >= 2
    /\ old.list[Len(old.list)] # req.wp

\* C6: RemoveWaypoint on a list of exactly one waypoint, whatever the index,
\* is refused as the removal of the only waypoint, leaves list and index as
\* they were and publishes nothing.
C6_OnlyWaypointKept ==
    (req.op = "remove" /\ Len(old.list) = 1) =>
      (OnlyWaypointWarned /\ Untouched /\ out = <<>>)

\* C6 witness: the only waypoint of a list, itself an added one, is asked for
C6_Witness ==
    /\ req.op = "remove" /\ Len(old.list) = 1
    /\ req.index = 0
    /\ old.list[1] \in NewWaypoints

\* C7 as stated: RemoveWaypoint with index >= len(list) fails with
\* IndexOutOfRange; list, length and index are unchanged, nothing is published.
C7_Original ==
    (req.op = "remove" /\ req.index >= Len(old.list)) =>
      (OutOfRangeWarned /\ ret = None /\ Untouched /\ out = <<>>)

\* C7 amended: RemoveWaypoint with index >= len(list) leaves list, length and
\* index unchanged and publishes nothing; it fails with IndexOutOfRange when
\* the list holds two waypoints or more, and as the removal of the only
\* waypoint when it holds one.
C7_RemoveRejectsLargeIndex ==
    (req.op = "remove" /\ req.index >= Len(old.list)) =>
      /\ Untouched
      /\ out = <<>>
      /\ Len(old.list) >= 2 => (OutOfRangeWarned /\ ret = None)
      /\ Len(old.list) = 1 => OnlyWaypointWarned

\* C7 witness: the first index past the end of a list of three
C7_Witness ==
    /\ req.op = "remove"
    /\ Len(old.list) = 3
    /\ req.index = 3

\* C8: RemoveWaypoint with a negative index is reported as out of range (by
\* the warning or by the IndexError that del raises; on a list of one: as the
\* removal of the only waypoint) and leaves list and index as they were; no
\* waypoint counted from the end is deleted.
C8_RemoveRejectsNegativeIndex ==
    (req.op = "remove" /\ req.index < 0) =>
      /\ Untouched
      /\ Len(old.list) >= 2 => (OutOfRangeWarned \/ ret = IndexError)

\* C9: a successful RemoveWaypoint of the current index re-wraps the index
\* (cyclical: modulo the new length; else clamped to the new length - 1) and
\* publishes exactly one target, the waypoint now at the index, which is the
\* one that followed the removed one unless the removed one was the last.
C9_RemoveCurrentRepublishes ==
    (RemoveSucceeded /\ req.index = old.cur) =>
      LET n == Len(waypoint_list)
      IN  /\ n = Len(old.list) - 1
          /\ current_waypoint_index =
               IF cyclical_path THEN old.cur % n
               ELSE IF old.cur > n - 1 THEN n - 1 ELSE old.cur
          /\ out = << CommandMsg(At(waypoint_list, current_waypoint_index)) >>
          /\ waypoint_pub_ = out[1]
          /\ old.cur < Len(old.list) - 1 =>
               At(waypoint_list, current_waypoint_index) = At(old.list, old.cur + 1)

\* C9 witness: cyclical mode, the current waypoint removed was the last of three
C9_Witness ==
    /\ RemoveSucceeded /\ req.index = old.cur
    /\ cyclical_path
    /\ Len(old.list) = 3 /\ old.cur = 2
    /\ current_waypoint_index = 0

\* C10: a successful RemoveWaypoint of another index than the current one, the
\* current one then being outside the shrunk list, decrements the index by one,
\* publishes nothing, and leaves the index on the waypoint targeted before.
C10_RemoveOtherKeepsTarget ==
    (RemoveSucceeded /\ req.index # old.cur /\ old.cur >= Len(waypoint_list)) =>
      /\ current_waypoint_index = old.cur - 1
      /\ out = <<>>
      /\ At(waypoint_list, current_waypoint_index) = At(old.list, old.cur)

\* squared distance of the sample position p, its z sign-inverted, to waypoint wp
Dist2(p, wp) ==
    (p[1] - wp[1]) * (p[1] - wp[1]) + (p[2] - wp[2]) * (p[2] - wp[2])
      + ((0 - p[3]) - wp[3]) * ((0 - p[3]) - wp[3])

\* the last handler was the odometry callback, the sample within / not within
\* the threshold of the waypoint that was current
Near == req.op = "odom" /\ Dist2(req.pos, At(old.list, old.cur)) < threshold * threshold
Far  == req.op = "odom" /\ Dist2(req.pos, At(old.list, old.cur)) >= threshold * threshold

\* the target-pose command of waypoint wp
TargetOf(wp) ==
    [topic |-> "high_level_command", x |-> wp[1], y |-> wp[2], F |-> wp[3],
     z |-> IF Len(wp) = 4 THEN wp[4] ELSE 0]

\* index c advanced by one under the wrap policy, for n waypoints
Advance(c, n) ==
    IF cyclical_path THEN (c + 1) % n
    ELSE IF c + 1 >= n THEN n - 1 ELSE c + 1

\* C11: a sample strictly within the threshold of the current waypoint sets
\* the index to the next one under the wrap policy and publishes, after the
\* relative pose, exactly one target: the waypoint at the new index.  With
\* [[0,0,10],[5,5,10],[10,10,10]], threshold 1, cyclical, vehicle at
\* (0,0,-10): index 1 and target (5,5,10,0).
C11_NearAdvances ==
    /\ Near =>
         /\ waypoint_list = old.list
         /\ current_waypoint_index = Advance(old.cur, Len(old.list))
         /\ Len(out) = 2
         /\ out[1].topic = "relative_pose"
         /\ out[2] = TargetOf(At(waypoint_list, current_waypoint_index))
    /\ ( /\ req.op = "odom" /\ req.pos = <<0, 0, -10>>
         /\ old.list = << <<0, 0, 10>>, <<5, 5, 10>>, <<10, 10, 10>> >>
         /\ old.cur = 0 /\ threshold = 1 /\ cyclical_path )
       => ( /\ current_waypoint_index = 1
            /\ out[2] = [topic |-> "high_level_command",
                         x |-> 5, y |-> 5, F |-> 10, z |-> 0] )

\* C11 witness: the scenario's sample was handled
C11_Witness ==
    /\ req.op = "odom" /\ req.pos = <<0, 0, -10>>
    /\ old.list = << <<0, 0, 10>>, <<5, 5, 10>>, <<10, 10, 10>> >>
    /\ old.cur = 0 /\ threshold = 1 /\ cyclical_path
    /\ current_waypoint_index = 1

\* C12: a sample at the threshold or farther from the current waypoint leaves
\* list and index as they were and publishes one relative pose (x, y, yaw,
\* sign-inverted z) and nothing else; so does any run of such samples.
C12_FarOnlyObserves ==
    Far =>
      /\ Untouched
      /\ out = << [topic |-> "relative_pose",
                   x |-> req.pos[1], y |-> req.pos[2],
                   z |-> IF req.quat = <<1, 0, 0, 0>> THEN 0 ELSE 180,
                   F |-> 0 - req.pos[3]] >>

\* C12 witness: a sample exactly at the threshold was handled
C12_Witness ==
    /\ Far
    /\ Dist2(req.pos, At(old.list, old.cur)) = threshold * threshold
    /\ req.quat = <<0, 0, 0, 1>>

\* C13: an advance from the last index gives index 0 in cyclical mode and the
\* last index again otherwise, on this advance and on every later one.
C13_AdvanceFromLast ==
    (Near /\ old.cur = Len(old.list) - 1) =>
      current_waypoint_index = IF cyclical_path THEN 0 ELSE Len(waypoint_list) - 1

\* C13 witness: non-cyclical, advanced at the last of three waypoints
C13_Witness ==
    /\ Near /\ ~cyclical_path
    /\ Len(old.list) = 3 /\ old.cur = 2
    /\ current_waypoint_index = 2

\* C17: ListWaypoints and SetWaypointsFromFile leave list and index as they
\* were and publish nothing; ListWaypoints succeeds, SetWaypointsFromFile
\* reports that it is not implemented.
C17_ReadOnlyOperations ==
    /\ req.op = "list" => (Untouched /\ out = <<>> /\ ret = True)
    /\ req.op = "file" =>
         /\ Untouched /\ out = <<>>
         /\ log = "print: set Waypoints from File (NOT IMPLEMENTED)"
         /\ ret = None

\* C17 witness: ListWaypoints on an edited list whose index is not 0
C17_Witness ==
    /\ req.op = "list"
    /\ Len(waypoint_list) = 4
    /\ current_waypoint_index = 2

\* the command c carries x, y and altitude of waypoint wp
Carries(c, wp) == c.x = wp[1] /\ c.y = wp[2] /\ c.F = wp[3]

\* the last handler published a target-pose command
Commanded == \E i \in 1 .. Len(out) : out[i].topic = "high_level_command"

\* the last request's index is one the operation is defined for (0..len for
\* an add, or its sentinel -1; 0..len-1 for a remove)
DefinedIndex ==
    /\ req.op = "add" =>
         (req.index = -1 \/ (0 <= req.index /\ req.index <= Len(old.list)))
    /\ req.op = "remove" => (0 <= req.index /\ req.index < Len(old.list))

\* C18: after initialization and after every completed operation the latched
\* target-pose command carries x, y and altitude of the waypoint at the index,
\* in particular after a remove below the index.  Stated for one operation
\* with a defined index, run from a state where the latched command was that
\* of the current waypoint.
C18_LatchedIsCurrent ==
    ( /\ DefinedIndex
      /\ Commanded \/ Carries(waypoint_pub_, At(old.list, old.cur)) )
    => Carries(waypoint_pub_, At(waypoint_list, current_waypoint_index))

\* C14: with the list not edited and every current target eventually reached,
\* in cyclical mode every index of the list is current again and again; in
\* non-cyclical mode the index ends at the last one and stays there; and in
\* every state a further sample can be handled.
C14_Patrol ==
    /\ \A i \in 0 .. (MaxLen - 1) :
         []<>((cyclical_path /\ i < Len(waypoint_list)) => current_waypoint_index = i)
    /\ <>[](~cyclical_path => current_waypoint_index = Len(waypoint_list) - 1)
    /\ [](ENABLED Odometry)

\* C14 witness: cyclical, the last of three targets reached, back at index 0
C14_Witness ==
    /\ cyclical_path /\ Near
    /\ Len(waypoint_list) = 3 /\ old.cur = 2
    /\ current_waypoint_index = 0
    /\ out[2] = TargetOf(<<0, 0, 10>>)

\* the target-pose commands among the messages o, in order
Commands(o) == SelectSeq(o, LAMBDA m : m.topic = "high_level_command")

\* C15: initialization with a list sets the index to 0 and publishes first a
\* relative pose with all fields zero, then the target of waypoint 0 (x, y,
\* altitude from the third component, the fourth if present else 0), and no
\* target-pose command before that one: when the main thread enters spin()
\* the index is 0 and the one command published is that of waypoint 0.
\* Stated for runs whose last request had an index the operation is defined for.
C15_InitialTarget ==
    (main = "spin" /\ DefinedIndex) =>
      /\ current_waypoint_index = 0
      /\ out[1] = [topic |-> "relative_pose", x |-> 0, y |-> 0, z |-> 0, F |-> 0]
      /\ Commands(out) = << TargetOf(At(waypoint_list, 0)) >>

C19_NoEarlyHandler ==
    DefinedIndex =>
      /\ req.op \in {"add", "remove", "odom"} => early = 0
      /\ ret # AttributeError

\* startup with no handler dispatched ends in a state of Init
StartReachesInit ==
    (main = "spin" /\ early = 0) =>
      /\ waypoint_list \in InitialLists
      /\ current_waypoint_index = 0
      /\ waypoint_pub_ = CommandMsg(At(waypoint_list, 0))
      /\ out = << RelativePoseMsg(0, 0, 0, 0), CommandMsg(At(waypoint_list, 0)) >>
      /\ req = NoReq /\ ret = None /\ log = ""
      /\ ~shutdown

=============================================================================
